---- MODULE Spec2Model ----
(***************************************************************************)
(* Model of src/app_divida_publica.py: a Streamlit dashboard that loads    *)
(* three JSON snapshots (debt evolution, debt holders, spending by         *)
(* function and year), draws one chart per table and answers a fixed list  *)
(* of questions with pandas aggregations.                                  *)
(*                                                                         *)
(* Two specifications share the variables:                                 *)
(*   SpecEngine  responder_pergunta as a function of its four arguments,   *)
(*               applied to tables drawn from bounded universes;           *)
(*   Spec        a session of the page: the files on disk, the two         *)
(*               st.cache_data memos, and one action per run of the        *)
(*               script (Streamlit reruns the whole script on every        *)
(*               interaction).                                             *)
(*                                                                         *)
(* Abstractions.  Numbers are naturals; a share v/total*100 is kept as the *)
(* exact fraction <<num, den>> (den = 0 is pandas' NaN of 0/0), so binary  *)
(* floating-point error is not modelled.  A DataFrame is the set of its    *)
(* column names plus the sequence of its rows, each row carrying its index *)
(* label idx.  A returned string is the record of its fixed text and the   *)
(* values interpolated into it.                                            *)
(***************************************************************************)
EXTENDS Integers, Sequences, FiniteSets, TLC

VARIABLES
    arquivos,    \* the three JSON files on disk
    mudancas,    \* how many times a file on disk has been changed
    cache_json,  \* st.cache_data memo of carregar_dados_json, per path
    cache_df,    \* st.cache_data memo of carregar_dataframes
    leituras,    \* open() calls made so far, per path
    df,          \* <<df_evolucao, df_detentores, df_gastos>> of the last run
    pagina,      \* what the last run of the script rendered
    pergunta,    \* the question of the last call of responder_pergunta
    resposta     \* the value that call returned

vars == <<arquivos, mudancas, cache_json, cache_df, leituras, df, pagina, pergunta, resposta>>

-----------------------------------------------------------------------------
(* Bounds and program constants *)

MaxLinhas == 3

MaxMudancas == 1

Valores == {0, 1, 2}

ANO_2018 == 2018

ANO_2024 == 2024

NomesFuncao == <<"Previdência", "Saúde", "Educação", "Defesa", "Transporte">>

NomesCredor == <<"Fundos de Previdência", "Fundos de Investimento", "Bancos",
                 "Não-residentes", "Seguradoras">>

-----------------------------------------------------------------------------
(* The question strings *)

P_PLACEHOLDER == "Selecione uma pergunta..."

P_SEP_LISTAGEM == "--- Perguntas de Listagem ---"

P_SEP_DIRETAS == "--- Perguntas Diretas ---"

P_LISTAR_2024 == "Listar todos os gastos de 2024 (do maior para o menor)"

P_LISTAR_2018 == "Listar todos os gastos de 2018 (do maior para o menor)"

P_LISTAR_CREDORES == "Listar todos os credores da Dívida (do maior para o menor)"

P_MAIOR_2018 == "Qual foi o maior gasto em 2018?"

P_MENOR_2018 == "Qual foi o menor gasto em 2018?"

P_MAIOR_2024 == "Qual foi o maior gasto em 2024?"

P_CREDOR == "Qual o principal credor da Dívida Pública?"

P_ANO_MAIOR == "Qual foi o ano com o maior estoque da Dívida?"

P_ANO_MENOR == "Qual foi o ano com o menor estoque da Dívida?"

\* Not in the source: the question MinSpending(2024) would have, by the
\* wording of its three siblings, and a question about something else.
P_MENOR_2024 == "Qual foi o menor gasto em 2024?"

P_FORA == "Qual a capital da França?"

lista_perguntas ==
    << P_PLACEHOLDER, P_SEP_LISTAGEM, P_LISTAR_2024, P_LISTAR_2018,
       P_LISTAR_CREDORES, P_SEP_DIRETAS, P_MAIOR_2018, P_MENOR_2018,
       P_MAIOR_2024, P_CREDOR, P_ANO_MAIOR, P_ANO_MENOR >>

Opcoes == {lista_perguntas[i] : i \in 1..Len(lista_perguntas)}

Perguntas == Opcoes \cup {P_MENOR_2024, P_FORA}

-----------------------------------------------------------------------------
(* The fixed texts of the returned strings *)

T_LISTA_2024 == "### Gastos de 2024 (do maior para o menor):"

T_LISTA_2018 == "### Gastos de 2018 (do maior para o menor):"

T_LISTA_CREDORES == "### Credores da Dívida (do maior para o menor):"

T_MAIOR_2018 == "O maior gasto em 2018 foi com"

T_MENOR_2018 == "O menor gasto em 2018 (entre os principais listados) foi com"

T_MAIOR_2024 == "O maior gasto em 2024 é com"

T_CREDOR == "O principal credor da Dívida Pública são os"

T_ANO_MAIOR == "O ano com o maior estoque da Dívida Pública no período foi"

T_ANO_MENOR == "O ano com o menor estoque da Dívida Pública no período foi"

T_ERRO == "Ocorreu um erro ao processar sua pergunta:"

T_SELECIONE == "Selecione uma pergunta."

T_PROPAGADA == "(exception propagated to the caller)"

-----------------------------------------------------------------------------
(* pandas *)

\* tb[c] raises KeyError unless c is a column of tb.
TemColuna(tb, c) == c \in tb.colunas

\* tb[tb['ano'] == ano]: the rows of that year, index labels kept.
Filtrar(tb, ano) == SelectSeq(tb.linhas, LAMBDA r : r.ano = ano)

\* Series.sum()
RECURSIVE Soma(_, _)
Soma(linhas, c) ==
    IF linhas = <<>> THEN 0 ELSE linhas[1][c] + Soma(Tail(linhas), c)

\* Series.idxmax(): a left-to-right scan that keeps the first maximum and
\* returns its index label.
RECURSIVE VarrerMax(_, _, _, _)
VarrerMax(linhas, c, i, melhor) ==
    IF i > Len(linhas) THEN linhas[melhor].idx
    ELSE VarrerMax(linhas, c, i + 1,
                   IF linhas[i][c] > linhas[melhor][c] THEN i ELSE melhor)

RECURSIVE VarrerMaxUltimo(_, _, _, _)
VarrerMaxUltimo(linhas, c, i, melhor) ==
    IF i > Len(linhas) THEN linhas[melhor].idx
    ELSE VarrerMaxUltimo(linhas, c, i + 1,
                   IF linhas[i][c] >= linhas[melhor][c] THEN i ELSE melhor)

idxmax_ultimo(linhas, c) == VarrerMaxUltimo(linhas, c, 2, 1)

idxmax(linhas, c) == VarrerMax(linhas, c, 2, 1)

\* Series.idxmin()
RECURSIVE VarrerMin(_, _, _, _)
VarrerMin(linhas, c, i, melhor) ==
    IF i > Len(linhas) THEN linhas[melhor].idx
    ELSE VarrerMin(linhas, c, i + 1,
                   IF linhas[i][c] < linhas[melhor][c] THEN i ELSE melhor)

idxmin(linhas, c) == VarrerMin(linhas, c, 2, 1)

\* df.loc[rotulo] on a frame whose index labels are unique.
loc(linhas, rotulo) == SelectSeq(linhas, LAMBDA r : r.idx = rotulo)[1]

\* Descending comparison of two sort keys <<num, den>>, den > 0.
MaiorOuIgual(a, b) == a[1] * b[2] >= b[1] * a[2]

EhNaN(k) == k[2] = 0

Permutacoes(n) ==
    {p \in [1..n -> 1..n] : \A i, j \in 1..n : p[i] = p[j] => i = j}

\* DataFrame.sort_values(by=..., ascending=False) with the default
\* kind='quicksort'.  pandas documents quicksort as not stable ("mergesort
\* and stable are the only stable algorithms") and numpy's quicksort argsort
\* is an introsort or a SIMD sorting network depending on the build, so the
\* order of rows with equal keys is any order.  NaN keys go last, in their
\* original order (nargsort with na_position='last').  The result is the set
\* of orders the call can produce, each a sequence of positions of linhas.
sort_values(chaves) ==
    LET n == Len(chaves)
    IN  {p \in Permutacoes(n) :
            \A i, j \in 1..n : i < j =>
                \/ /\ ~EhNaN(chaves[p[i]])
                   /\ ~EhNaN(chaves[p[j]])
                   /\ MaiorOuIgual(chaves[p[i]], chaves[p[j]])
                \/ ~EhNaN(chaves[p[i]]) /\ EhNaN(chaves[p[j]])
                \/ EhNaN(chaves[p[i]]) /\ EhNaN(chaves[p[j]]) /\ p[i] < p[j]}

-----------------------------------------------------------------------------
(* Formatting *)

\* Rounding a non-negative fraction num/den to the nearest integer, ties to
\* even: what the format specification .1f does to the tenths of its value.
Arredondar(num, den) ==
    LET q == num \div den
        r == num % den
    IN  IF 2 * r < den THEN q
        ELSE IF 2 * r > den THEN q + 1
        ELSE IF q % 2 = 0 THEN q ELSE q + 1

\* f"{x:.1f}" of the fraction x = k[1]/k[2]: its tenths, or the text "nan".
Formatar1f(k) ==
    IF EhNaN(k) THEN [nan |-> TRUE, decimos |-> 0]
    ELSE [nan |-> FALSE, decimos |-> Arredondar(k[1] * 10, k[2])]

-----------------------------------------------------------------------------
(* responder_pergunta *)

\* How the body of the try statement ends: at a return statement, with an
\* exception, or by falling off the end of the if/elif chain.
Retornou(r) == [fim |-> "return", valor |-> r]

Levantou(e) == [fim |-> "raise", valor |-> [e |-> e]]

\* The total of the whole table instead of the year's slice.
TotalDaTabela(df_gastos, ano) == Soma(df_gastos.linhas, "valor_bi")

\* total_<ano> = df_<ano>['valor_bi'].sum(), df_<ano> being the year's slice.
TotalDoAno(df_gastos, ano) == Soma(Filtrar(df_gastos, ano), "valor_bi")

\* The share column: (df_ano['valor_bi'] / total) * 100, one fraction per row.
Porcentagens(df_ano, total) ==
    [i \in 1..Len(df_ano) |-> <<df_ano[i].valor_bi * 100, total>>]

\* One "- **funcao**: R$ valor bi (pct% do total listado)" line; porcentagem
\* is the value of the column the line was printed from.
LinhaGastoMd(row, k) ==
    [funcao |-> row.funcao,
     valor_bi |-> Formatar1f(<<row.valor_bi, 1>>),
     porcentagem |-> k,
     pct |-> Formatar1f(k)]

\* "Listar todos os gastos de <ano> ...": lines 138-147 and 149-158.
ListarGastos(df_gastos, ano, titulo) ==
    IF ~TemColuna(df_gastos, "ano") \/ ~TemColuna(df_gastos, "valor_bi")
    THEN {Levantou("KeyError")}
    ELSE
      LET df_ano == Filtrar(df_gastos, ano)
          total == TotalDoAno(df_gastos, ano)
          chaves == Porcentagens(df_ano, total)
      IN  IF Len(df_ano) > 0 /\ ~TemColuna(df_gastos, "funcao")
          THEN {Levantou("KeyError")}
          ELSE {Retornou([texto |-> titulo,
                          itens |-> [i \in 1..Len(df_ano) |->
                                       LinhaGastoMd(df_ano[o[i]], chaves[o[i]])]])
                : o \in sort_values(chaves)}

\* "Listar todos os credores ...": lines 160-165.
ListarCredores(df_detentores) ==
    IF ~TemColuna(df_detentores, "porcentagem") THEN {Levantou("KeyError")}
    ELSE
      LET ls == df_detentores.linhas
          chaves == [i \in 1..Len(ls) |-> <<ls[i].porcentagem, 1>>]
      IN  IF Len(ls) > 0 /\ ~TemColuna(df_detentores, "credor")
          THEN {Levantou("KeyError")}
          ELSE {Retornou([texto |-> T_LISTA_CREDORES,
                          itens |-> [i \in 1..Len(ls) |->
                                       [credor |-> ls[o[i]].credor,
                                        porcentagem |-> Formatar1f(chaves[o[i]])]]])
                : o \in sort_values(chaves)}

\* "Qual foi o maior/menor gasto em <ano>?": lines 168-184.
ExtremoGasto(df_gastos, ano, maior, frase) ==
    IF ~TemColuna(df_gastos, "ano") \/ ~TemColuna(df_gastos, "valor_bi")
    THEN {Levantou("KeyError")}
    ELSE
      LET df_ano == Filtrar(df_gastos, ano)
      IN  IF df_ano = <<>> THEN {Levantou("ValueError")}
          ELSE IF ~TemColuna(df_gastos, "funcao") THEN {Levantou("KeyError")}
          ELSE LET gasto == loc(df_ano, IF maior THEN idxmax(df_ano, "valor_bi")
                                                  ELSE idxmin(df_ano, "valor_bi"))
               IN  {Retornou([texto |-> frase, rotulo |-> gasto.funcao,
                              valor |-> gasto.valor_bi])}

\* "Qual o principal credor da Dívida Pública?": lines 186-189.
PrincipalCredor(df_detentores) ==
    IF ~TemColuna(df_detentores, "porcentagem") THEN {Levantou("KeyError")}
    ELSE IF df_detentores.linhas = <<>> THEN {Levantou("ValueError")}
    ELSE IF ~TemColuna(df_detentores, "credor") THEN {Levantou("KeyError")}
    ELSE LET credor == loc(df_detentores.linhas,
                           idxmax(df_detentores.linhas, "porcentagem"))
         IN  {Retornou([texto |-> T_CREDOR, rotulo |-> credor.credor,
                        valor |-> credor.porcentagem])}

\* "Qual foi o ano com o maior/menor estoque da Dívida?": lines 191-199.
\* The year reported is the index label itself.
ExtremoEstoque(df_evolucao, maior, frase) ==
    IF ~TemColuna(df_evolucao, "valor_trilhoes") THEN {Levantou("KeyError")}
    ELSE IF df_evolucao.linhas = <<>> THEN {Levantou("ValueError")}
    ELSE LET ano_idx == IF maior THEN idxmax(df_evolucao.linhas, "valor_trilhoes")
                                 ELSE idxmin(df_evolucao.linhas, "valor_trilhoes")
         IN  {Retornou([texto |-> frase, rotulo |-> ano_idx,
                        valor |-> loc(df_evolucao.linhas, ano_idx).valor_trilhoes])}

\* The if/elif chain of lines 138-199.
Corpo(q, df_evolucao, df_detentores, df_gastos) ==
    CASE q = P_LISTAR_2024 -> ListarGastos(df_gastos, ANO_2024, T_LISTA_2024)
      [] q = P_LISTAR_2018 -> ListarGastos(df_gastos, ANO_2018, T_LISTA_2018)
      [] q = P_LISTAR_CREDORES -> ListarCredores(df_detentores)
      [] q = P_MAIOR_2018 -> ExtremoGasto(df_gastos, ANO_2018, TRUE, T_MAIOR_2018)
      [] q = P_MENOR_2018 -> ExtremoGasto(df_gastos, ANO_2018, FALSE, T_MENOR_2018)
      [] q = P_MAIOR_2024 -> ExtremoGasto(df_gastos, ANO_2024, TRUE, T_MAIOR_2024)
      [] q = P_CREDOR -> PrincipalCredor(df_detentores)
      [] q = P_ANO_MAIOR -> ExtremoEstoque(df_evolucao, TRUE, T_ANO_MAIOR)
      [] q = P_ANO_MENOR -> ExtremoEstoque(df_evolucao, FALSE, T_ANO_MENOR)
      [] OTHER -> {[fim |-> "fallthrough"]}

\* The function without its try/except: an exception of the body leaves it.
responder_sem_try(q, df_evolucao, df_detentores, df_gastos) ==
    {IF o.fim = "return" THEN o.valor
     ELSE IF o.fim = "raise" THEN [texto |-> T_PROPAGADA, e |-> o.valor.e]
     ELSE [texto |-> T_SELECIONE]
     : o \in Corpo(q, df_evolucao, df_detentores, df_gastos)}

\* responder_pergunta, lines 133-204: the values a call can return.
responder_pergunta(q, df_evolucao, df_detentores, df_gastos) ==
    {IF o.fim = "return" THEN o.valor
     ELSE IF o.fim = "raise" THEN [texto |-> T_ERRO, e |-> o.valor.e]
     ELSE [texto |-> T_SELECIONE]
     : o \in Corpo(q, df_evolucao, df_detentores, df_gastos)}

\* `"###" in resposta`, line 299: the three list headings are the fixed
\* texts that hold "###".
TemCerquilhas(r) == r.texto \in {T_LISTA_2024, T_LISTA_2018, T_LISTA_CREDORES}

-----------------------------------------------------------------------------
(* The tables responder_pergunta is applied to *)

\* A frame exposes only its columns: a row has no field for a missing one.
Restringir(linhas, cols) ==
    [i \in 1..Len(linhas) |-> [c \in cols \cup {"idx"} |-> linhas[i][c]]]

Frame(cols, linhas) ==
    [nulo |-> FALSE, colunas |-> cols, linhas |-> Restringir(linhas, cols)]

ColsGastos == {"funcao", "ano", "valor_bi"}

ColsDetentores == {"credor", "porcentagem"}

ColsEvolucao == {"valor_trilhoes"}

\* All the columns, or all but one.
Variantes(cols) == {cols} \cup {cols \ {c} : c \in cols}

\* pd.DataFrame(records): a RangeIndex 0..n-1.  The function names differ
\* row by row, so each (funcao, ano) pair is unique as the data model asks.
LinhasGastos(n, anos, vs) ==
    [i \in 1..n |-> [idx |-> i - 1, funcao |-> NomesFuncao[i],
                     ano |-> anos[i], valor_bi |-> vs[i]]]

LinhasDetentores(n, vs) ==
    [i \in 1..n |-> [idx |-> i - 1, credor |-> NomesCredor[i],
                     porcentagem |-> vs[i]]]

\* pd.DataFrame(records).set_index('ano'): the year is the index label.
\* Years are unique and ascending, as the data model asks.
LinhasEvolucao(n, vs) ==
    [i \in 1..n |-> [idx |-> ANO_2018 + i - 1, valor_trilhoes |-> vs[i]]]

UniversoGastos ==
    UNION {{Frame(cs, LinhasGastos(n, a, v)) :
              a \in [1..n -> {ANO_2018, ANO_2024}], v \in [1..n -> Valores],
              cs \in Variantes(ColsGastos)} : n \in 0..MaxLinhas}

UniversoDetentores ==
    UNION {{Frame(cs, LinhasDetentores(n, v)) :
              v \in [1..n -> Valores], cs \in Variantes(ColsDetentores)}
           : n \in 0..MaxLinhas}

UniversoEvolucao ==
    UNION {{Frame(cs, LinhasEvolucao(n, v)) :
              v \in [1..n -> Valores], cs \in Variantes(ColsEvolucao)}
           : n \in 0..MaxLinhas}

EvolucaoBase == Frame(ColsEvolucao, LinhasEvolucao(2, <<1, 2>>))

DetentoresBase == Frame(ColsDetentores, LinhasDetentores(2, <<2, 1>>))

GastosBase ==
    Frame(ColsGastos, LinhasGastos(2, <<ANO_2018, ANO_2024>>, <<1, 2>>))

\* Each branch of responder_pergunta reads one of the three tables, so one
\* table at a time ranges over its universe beside two fixed ones.
Triplas ==
    {<<e, DetentoresBase, GastosBase>> : e \in UniversoEvolucao}
    \cup {<<EvolucaoBase, d, GastosBase>> : d \in UniversoDetentores}
    \cup {<<EvolucaoBase, DetentoresBase, g>> : g \in UniversoGastos}

SemResposta == [texto |-> ""]

InitEngine ==
    /\ df \in Triplas
    /\ pergunta = ""
    /\ resposta = SemResposta
    /\ arquivos = <<>>
    /\ mudancas = 0
    /\ cache_json = <<>>
    /\ cache_df = <<>>
    /\ leituras = <<>>
    /\ pagina = <<>>

\* One call responder_pergunta(q, df_evolucao, df_detentores, df_gastos).
Perguntar(q) ==
    /\ resposta' \in responder_pergunta(q, df[1], df[2], df[3])
    /\ pergunta' = q
    /\ UNCHANGED <<arquivos, mudancas, cache_json, cache_df, leituras, df, pagina>>

NextEngine == \E q \in Perguntas : Perguntar(q)

SpecEngine == InitEngine /\ [][NextEngine]_vars

-----------------------------------------------------------------------------
(* Vocabulary of the properties of responder_pergunta *)

\* The result kinds of the specification, read off the returned text.  No
\* return statement of the function produces a text of its own for an empty
\* slice.
Kind(r) ==
    CASE TemCerquilhas(r) -> "List"
      [] r.texto = T_ERRO -> "ComputationError"
      [] r.texto = T_SELECIONE -> "UnknownQuestion"
      [] r.texto = T_PROPAGADA -> "Raised"
      [] r.texto \in {T_MAIOR_2018, T_MENOR_2018, T_MAIOR_2024, T_CREDOR,
                      T_ANO_MAIOR, T_ANO_MENOR} -> "Text"
      [] OTHER -> "None"

Chamada == pergunta # ""

PerguntasListarGastos == {P_LISTAR_2018, P_LISTAR_2024}

PerguntasExtremoGasto == {P_MAIOR_2018, P_MENOR_2018, P_MAIOR_2024, P_MENOR_2024}

PerguntasDeAno == PerguntasListarGastos \cup PerguntasExtremoGasto

PerguntasDiretas ==
    {P_MAIOR_2018, P_MENOR_2018, P_MAIOR_2024, P_CREDOR, P_ANO_MAIOR, P_ANO_MENOR}

AnoDaPergunta(q) ==
    IF q \in {P_LISTAR_2018, P_MAIOR_2018, P_MENOR_2018} THEN ANO_2018 ELSE ANO_2024

GastosBemFormados == df[3].colunas = ColsGastos

\* The rows a question aggregates, the column it aggregates, the column (or
\* the index) it names the record by, and whether it asks for the maximum.
FatiaDa(q) ==
    IF q \in PerguntasDeAno THEN Filtrar(df[3], AnoDaPergunta(q))
    ELSE IF q \in {P_CREDOR, P_LISTAR_CREDORES} THEN df[2].linhas
    ELSE df[1].linhas

TabelaBemFormada(q) ==
    IF q \in PerguntasDeAno THEN GastosBemFormados
    ELSE IF q \in {P_CREDOR, P_LISTAR_CREDORES} THEN df[2].colunas = ColsDetentores
    ELSE df[1].colunas = ColsEvolucao

ValorDa(q) ==
    IF q \in PerguntasDeAno THEN "valor_bi"
    ELSE IF q \in {P_CREDOR, P_LISTAR_CREDORES} THEN "porcentagem"
    ELSE "valor_trilhoes"

RotuloDa(q) ==
    IF q \in PerguntasDeAno THEN "funcao"
    ELSE IF q \in {P_CREDOR, P_LISTAR_CREDORES} THEN "credor"
    ELSE "idx"

PedeMaior(q) == q \in {P_MAIOR_2018, P_MAIOR_2024, P_CREDOR, P_ANO_MAIOR}

\* (C1) Every call of responder_pergunta, whatever the question and the
\* tables (empty slices, missing columns), ends by returning one of the
\* function's own texts, and when an aggregation faults the value returned
\* is the generic "Ocorreu um erro ao processar sua pergunta" result.
C1_NuncaLevanta ==
    Chamada =>
        /\ Kind(resposta) \in {"List", "Text", "ComputationError", "UnknownQuestion"}
        /\ (\E o \in Corpo(pergunta, df[1], df[2], df[3]) : o.fim = "raise")
              => Kind(resposta) = "ComputationError"

\* A listing asked of a spending table without its value column, and an
\* extremum asked of an empty holders table: both faults came back as values.
C1_Witness ==
    \/ /\ pergunta = P_LISTAR_2024
       /\ ~TemColuna(df[3], "valor_bi")
       /\ Kind(resposta) = "ComputationError"
    \/ /\ pergunta = P_CREDOR
       /\ df[2].colunas = ColsDetentores
       /\ df[2].linhas = <<>>
       /\ Kind(resposta) = "ComputationError"

\* (C2) With no spending record for the requested year, each year-sliced
\* question (list, maximum, minimum) returns an explicit EmptySlice result,
\* distinct from a list answer and from the generic computation error.
C2_FatiaVaziaExplicita ==
    (/\ Chamada
     /\ pergunta \in {P_LISTAR_2018, P_LISTAR_2024, P_MAIOR_2018, P_MENOR_2018,
                      P_MAIOR_2024}
     /\ GastosBemFormados
     /\ FatiaDa(pergunta) = <<>>)
        => Kind(resposta) = "EmptySlice"

\* (C10) For each of the two years, the list, maximum and minimum questions
\* are bound to a handler: asked of a non-empty slice, each returns that
\* year's aggregation and not the "Selecione uma pergunta." result.
C10_CatalogoCompleto ==
    (/\ Chamada
     /\ pergunta \in PerguntasDeAno
     /\ GastosBemFormados
     /\ FatiaDa(pergunta) # <<>>)
        => Kind(resposta) \in {"List", "Text"}

\* (C9) Each direct question, asked of a non-empty table or slice, names a
\* record of it whose value no other record exceeds (maximum) or undercuts
\* (minimum), the first such record in input order, with that record's own
\* label (function, creditor or year) and value.
C9_PrimeiroExtremo ==
    (/\ Chamada
     /\ pergunta \in PerguntasDiretas
     /\ TabelaBemFormada(pergunta)
     /\ FatiaDa(pergunta) # <<>>)
        => LET f == FatiaDa(pergunta)
               c == ValorDa(pergunta)
           IN  /\ Kind(resposta) = "Text"
               /\ \E i \in 1..Len(f) :
                     /\ resposta.rotulo = f[i][RotuloDa(pergunta)]
                     /\ resposta.valor = f[i][c]
                     /\ \A j \in 1..Len(f) :
                           IF PedeMaior(pergunta) THEN f[j][c] <= f[i][c]
                                                  ELSE f[j][c] >= f[i][c]
                     /\ \A j \in 1..(i - 1) : f[j][c] # f[i][c]

\* Two 2018 records tie for the maximum behind a smaller first record, and
\* the answer names the first of the two.
C9_Witness ==
    /\ pergunta = P_MAIOR_2018
    /\ GastosBemFormados
    /\ LET f == FatiaDa(P_MAIOR_2018)
       IN  /\ Len(f) = 3
           /\ f[1].valor_bi < f[2].valor_bi
           /\ f[2].valor_bi = f[3].valor_bi
           /\ Kind(resposta) = "Text"
           /\ resposta.rotulo = f[2].funcao

\* (C8) A list answer holds exactly the records of the table (of the
\* year's slice), in descending order of the sort key, records with equal
\* keys in their original input order.
C8_OrdemEstavel ==
    (/\ Chamada
     /\ pergunta \in PerguntasListarGastos \cup {P_LISTAR_CREDORES}
     /\ TabelaBemFormada(pergunta))
        => LET f == FatiaDa(pergunta)
               c == ValorDa(pergunta)
               r == RotuloDa(pergunta)
           IN  /\ Kind(resposta) = "List"
               /\ Len(resposta.itens) = Len(f)
               /\ \E o \in Permutacoes(Len(f)) :
                     /\ \A i \in 1..Len(f) :
                           /\ resposta.itens[i][r] = f[o[i]][r]
                           /\ resposta.itens[i][c] = Formatar1f(<<f[o[i]][c], 1>>)
                     /\ \A i, j \in 1..Len(f) : i < j =>
                           \/ f[o[i]][c] > f[o[j]][c]
                           \/ f[o[i]][c] = f[o[j]][c] /\ o[i] < o[j]

RECURSIVE SomaNumeradores(_)
SomaNumeradores(itens) ==
    IF itens = <<>> THEN 0
    ELSE itens[1].porcentagem[1] + SomaNumeradores(Tail(itens))

\* The spending table with only the records of one year.
SoAno(tb, ano) == [tb EXCEPT !.linhas = Filtrar(tb, ano)]

\* The spending table with every record of the other year changed.
OutroAnoAlterado(tb, ano) ==
    [tb EXCEPT !.linhas =
        [i \in 1..Len(tb.linhas) |->
            IF tb.linhas[i].ano = ano THEN tb.linhas[i]
            ELSE [tb.linhas[i] EXCEPT !.valor_bi = @ + 1]]]

\* What C7 says of one list answer: each record's share is its value over
\* the total of the year's slice, times 100; the shares sum to 100; and the
\* answer is one the same question has with the other year's records
\* removed or changed.
SharesDaFatia(q) ==
    LET f == FatiaDa(q)
        total == Soma(f, "valor_bi")
    IN  /\ Kind(resposta) = "List"
        /\ Len(resposta.itens) = Len(f)
        /\ \A i \in 1..Len(f) :
              \E j \in 1..Len(f) :
                 /\ resposta.itens[i].funcao = f[j].funcao
                 /\ resposta.itens[i].porcentagem = <<f[j].valor_bi * 100, total>>
        /\ total # 0
        /\ SomaNumeradores(resposta.itens) = 100 * total
        /\ resposta \in responder_pergunta(q, df[1], df[2],
                                           SoAno(df[3], AnoDaPergunta(q)))
        /\ resposta \in responder_pergunta(q, df[1], df[2],
                                           OutroAnoAlterado(df[3], AnoDaPergunta(q)))

\* (C7, as claimed) For every non-empty slice the shares of the list answer
\* are value / slice total x 100, sum to 100 and do not depend on the other
\* year's records.
C7_SomaCem ==
    (/\ Chamada
     /\ pergunta \in PerguntasListarGastos
     /\ GastosBemFormados
     /\ FatiaDa(pergunta) # <<>>)
        => SharesDaFatia(pergunta)

\* (C7, amended) The same for every slice whose values are not all zero;
\* and the one-decimal share printed in each line is within 0.05 of the
\* record's share.
C7_SomaCemTotalPositivo ==
    (/\ Chamada
     /\ pergunta \in PerguntasListarGastos
     /\ GastosBemFormados
     /\ Soma(FatiaDa(pergunta), "valor_bi") > 0)
        => /\ SharesDaFatia(pergunta)
           /\ \A i \in 1..Len(resposta.itens) :
                 LET it == resposta.itens[i]
                     d == it.pct.decimos * it.porcentagem[2]
                          - it.porcentagem[1] * 10
                 IN  /\ ~it.pct.nan
                     /\ 2 * d <= it.porcentagem[2]
                     /\ -2 * d <= it.porcentagem[2]

\* Two 2018 records worth 2 and 1 beside a 2024 record worth 2: the 2018
\* list prints 66.7 and 33.3.
C7_Witness ==
    /\ pergunta = P_LISTAR_2018
    /\ GastosBemFormados
    /\ Len(df[3].linhas) = 3
    /\ Soma(Filtrar(df[3], ANO_2024), "valor_bi") = 2
    /\ Kind(resposta) = "List"
    /\ Len(resposta.itens) = 2
    /\ resposta.itens[1].pct = [nan |-> FALSE, decimos |-> 667]
    /\ resposta.itens[2].pct = [nan |-> FALSE, decimos |-> 333]

-----------------------------------------------------------------------------
(* The session of the page *)

F_EVOLUCAO == "dados_evolucao_divida.json"

F_DETENTORES == "dados_detentores_divida.json"

F_GASTOS == "dados_gastos_comparativo.json"

Fontes == {F_EVOLUCAO, F_DETENTORES, F_GASTOS}

\* The Python value None, and a parsed JSON list of flat records.
Nenhum == [nulo |-> TRUE, colunas |-> {}, linhas |-> <<>>]

Lista(cols, linhas) == [nulo |-> FALSE, colunas |-> cols, linhas |-> linhas]

\* A file on disk: missing, unreadable as JSON, or holding a list of records.
Ausente == [estado |-> "ausente", dados |-> Nenhum]

Ilegivel == [estado |-> "ilegivel", dados |-> Nenhum]

Json(cols, linhas) == [estado |-> "json", dados |-> Lista(cols, linhas)]

ConteudosEvolucao ==
    { Ausente, Ilegivel, Json({}, <<>>),
      Json({"ano", "valor_trilhoes"},
           <<[ano |-> 2018, valor_trilhoes |-> 1], [ano |-> 2019, valor_trilhoes |-> 2]>>),
      Json({"valor_trilhoes"}, <<[valor_trilhoes |-> 1]>>) }

ConteudosDetentores ==
    { Ausente,
      Json({"credor", "porcentagem"},
           <<[credor |-> "Fundos de Previdência", porcentagem |-> 2],
             [credor |-> "Bancos", porcentagem |-> 1]>>),
      Json({"credor"}, <<[credor |-> "Bancos"]>>) }

ConteudosGastos ==
    { Ausente,
      Json({"funcao", "ano", "valor_bi"},
           <<[funcao |-> "Saúde", ano |-> 2018, valor_bi |-> 1],
             [funcao |-> "Saúde", ano |-> 2024, valor_bi |-> 2],
             [funcao |-> "Educação", ano |-> 2018, valor_bi |-> 2],
             [funcao |-> "Educação", ano |-> 2024, valor_bi |-> 1]>>),
      Json({"funcao", "ano", "valor_bi"},
           <<[funcao |-> "Saúde", ano |-> 2024, valor_bi |-> 2]>>),
      Json({"funcao", "ano", "valor_bi"},
           <<[funcao |-> "Saúde", ano |-> 2018, valor_bi |-> 2]>>),
      Json({"funcao", "ano"}, <<[funcao |-> "Saúde", ano |-> 2024]>>) }

Conteudos(f) ==
    IF f = F_EVOLUCAO THEN ConteudosEvolucao
    ELSE IF f = F_DETENTORES THEN ConteudosDetentores
    ELSE ConteudosGastos

M_NAO_ENCONTRADO == "Erro: O arquivo ... não foi encontrado."

M_ERRO_LEITURA == "Erro ao ler o arquivo ...:"

M_FALHA == "Falha ao carregar os arquivos de dados JSON."

M_SELECIONE_VALIDA == "Por favor, selecione uma pergunta válida."

\* The body of carregar_dados_json, lines 28-36: the value returned and the
\* st.error it shows.
LerArquivo(conteudo) ==
    IF conteudo.estado = "ausente"
    THEN [valor |-> Nenhum, msgs |-> <<M_NAO_ENCONTRADO>>]
    ELSE IF conteudo.estado = "ilegivel"
    THEN [valor |-> Nenhum, msgs |-> <<M_ERRO_LEITURA>>]
    ELSE [valor |-> conteudo.dados, msgs |-> <<>>]

SemCacheJson == [f \in Fontes |-> [hit |-> FALSE, valor |-> Nenhum, msgs |-> <<>>]]

SemCacheDf == [hit |-> FALSE, valor |-> <<Nenhum, Nenhum, Nenhum>>, msgs |-> <<>>]

\* @st.cache_data on carregar_dados_json, lines 25-26: the first call for a
\* path runs the body and stores its value and the elements it showed; a
\* later call returns a copy of the stored value and shows them again.
carregar_dados_json(f, cj, arqs) ==
    IF cj[f].hit THEN [valor |-> cj[f].valor, msgs |-> cj[f].msgs, leu |-> FALSE]
    ELSE [valor |-> LerArquivo(arqs[f]).valor, msgs |-> LerArquivo(arqs[f]).msgs,
          leu |-> TRUE]

\* Python truth of a loaded value: None and the empty list are false.
Verdadeiro(v) == ~v.nulo /\ v.linhas # <<>>

\* pd.DataFrame(records): the union of the keys as columns, a RangeIndex.
DataFrame(v) ==
    [nulo |-> FALSE, colunas |-> v.colunas,
     linhas |-> [i \in 1..Len(v.linhas) |->
                   [c \in v.colunas \cup {"idx"} |->
                      IF c = "idx" THEN i - 1 ELSE v.linhas[i][c]]]]

\* DataFrame.set_index('ano'), for a frame that has the column.
set_index_ano(tb) ==
    [nulo |-> FALSE, colunas |-> tb.colunas \ {"ano"},
     linhas |-> [i \in 1..Len(tb.linhas) |->
                   [c \in (tb.colunas \ {"ano"}) \cup {"idx"} |->
                      IF c = "idx" THEN tb.linhas[i].ano ELSE tb.linhas[i][c]]]]

\* The body of carregar_dataframes, lines 41-51, given the three values the
\* calls of carregar_dados_json returned.
Converter(dados_evolucao, dados_detentores, dados_gastos) ==
    IF Verdadeiro(dados_evolucao) /\ Verdadeiro(dados_detentores)
       /\ Verdadeiro(dados_gastos)
    THEN IF "ano" \notin dados_evolucao.colunas
         THEN [fim |-> "raise", valor |-> <<Nenhum, Nenhum, Nenhum>>]
         ELSE [fim |-> "return",
               valor |-> <<set_index_ano(DataFrame(dados_evolucao)),
                           DataFrame(dados_detentores), DataFrame(dados_gastos)>>]
    ELSE [fim |-> "return", valor |-> <<Nenhum, Nenhum, Nenhum>>]

MsgsDe(js) == js[F_EVOLUCAO].msgs \o js[F_DETENTORES].msgs \o js[F_GASTOS].msgs

\* One call of carregar_dataframes with the memos cd and cj and the files
\* arqs: how it ends, what it returns and shows, which files it read and
\* the memos after it.  An exception stores nothing in the function's own
\* memo; the values carregar_dados_json returned stay in theirs.
Carregar(cd, cj, arqs) ==
    LET js == [f \in Fontes |-> carregar_dados_json(f, cj, arqs)]
        r == Converter(js[F_EVOLUCAO].valor, js[F_DETENTORES].valor,
                       js[F_GASTOS].valor)
        cj2 == [f \in Fontes |->
                  [hit |-> TRUE, valor |-> js[f].valor, msgs |-> js[f].msgs]]
    IN  [fim |-> r.fim, valor |-> r.valor, msgs |-> MsgsDe(js),
         leu |-> {f \in Fontes : js[f].leu},
         cache_json |-> cj2,
         cache_df |-> IF r.fim = "return"
                      THEN [hit |-> TRUE, valor |-> r.valor, msgs |-> MsgsDe(js)]
                      ELSE cd]

\* The two functions without their @st.cache_data decorators.
carregar_dataframes_sem_cache(cd, cj, arqs) == Carregar(SemCacheDf, SemCacheJson, arqs)

\* @st.cache_data on carregar_dataframes, lines 38-39.
carregar_dataframes(cd, cj, arqs) ==
    IF cd.hit
    THEN [fim |-> "return", valor |-> cd.valor, msgs |-> cd.msgs, leu |-> {},
          cache_json |-> cj, cache_df |-> cd]
    ELSE Carregar(cd, cj, arqs)

\* criar_grafico_evolucao, lines 55-71: reads df['valor_trilhoes'].
GraficoEvolucaoOk(tb) == TemColuna(tb, "valor_trilhoes")

\* criar_grafico_gastos_comparativo, lines 107-129: df.pivot needs the three
\* columns and raises on a repeated (funcao, ano) pair; sort_values(2024)
\* needs at least one record of 2024.
GraficoGastosOk(tb) ==
    /\ tb.colunas = ColsGastos
    /\ \A i, j \in 1..Len(tb.linhas) :
          (tb.linhas[i].funcao = tb.linhas[j].funcao
           /\ tb.linhas[i].ano = tb.linhas[j].ano) => i = j
    /\ \E i \in 1..Len(tb.linhas) : tb.linhas[i].ano = ANO_2024

\* criar_grafico_detentores, lines 73-105: set_index('credor') and
\* df['porcentagem'].
GraficoDetentoresOk(tb) == TemColuna(tb, "credor") /\ TemColuna(tb, "porcentagem")

\* The tab bodies that ran to their end, lines 232-302: an exception in a
\* chart function ends the run of the script there.  The body of the fourth
\* tab cannot raise.
AbasCompletas(t) ==
    IF ~GraficoEvolucaoOk(t[1]) THEN 0
    ELSE IF ~GraficoGastosOk(t[3]) THEN 1
    ELSE IF ~GraficoDetentoresOk(t[2]) THEN 2
    ELSE 4

\* `"..." in pergunta_selecionada`, line 294: of the options of the
\* selector only the placeholder holds three dots.
TemReticencias(q) == q = P_PLACEHOLDER

\* What the calls of responder_pergunta leave in the caller's frames: the
\* list branches work on df_gastos[...].copy() and on the new frame that
\* sort_values (inplace=False) returns, the others only read.
AposResponder(q, t) == t

PaginaInicial ==
    [rodou |-> FALSE, carga |-> "", erros |-> <<>>, abas_criadas |-> FALSE,
     abas |-> 0, excecao |-> FALSE, selecionada |-> "", botao |-> FALSE,
     aviso |-> FALSE, estilo |-> ""]

Init ==
    /\ arquivos \in {a \in [Fontes -> ConteudosEvolucao \cup ConteudosDetentores
                                        \cup ConteudosGastos] :
                        \A f \in Fontes : a[f] \in Conteudos(f)}
    /\ mudancas = 0
    /\ cache_json = SemCacheJson
    /\ cache_df = SemCacheDf
    /\ leituras = [f \in Fontes |-> 0]
    /\ df = <<Nenhum, Nenhum, Nenhum>>
    /\ pagina = PaginaInicial
    /\ pergunta = ""
    /\ resposta = SemResposta

\* One run of the script, lines 209-319, with the selector on sel and the
\* button "Buscar Resposta" pressed or not.
Executar(sel, botao) ==
    LET c == carregar_dataframes(cache_df, cache_json, arquivos)
        t == c.valor
        carregou == ~t[1].nulo /\ ~t[2].nulo /\ ~t[3].nulo
        abas == IF c.fim = "return" /\ carregou THEN AbasCompletas(t) ELSE 0
        clicou == abas = 4 /\ botao
        chamou == clicou /\ ~TemReticencias(sel)
        base == [PaginaInicial EXCEPT !.rodou = TRUE, !.selecionada = sel,
                                      !.botao = botao]
    IN  /\ cache_json' = c.cache_json
        /\ cache_df' = c.cache_df
        /\ leituras' = [f \in Fontes |->
                          IF f \in c.leu THEN leituras[f] + 1 ELSE leituras[f]]
        /\ UNCHANGED <<arquivos, mudancas>>
        /\ IF chamou
           THEN /\ resposta' \in responder_pergunta(sel, t[1], t[2], t[3])
                /\ pergunta' = sel
           ELSE /\ resposta' = SemResposta
                /\ pergunta' = ""
        /\ df' = IF c.fim = "raise" THEN <<Nenhum, Nenhum, Nenhum>>
                 ELSE IF chamou THEN AposResponder(sel, t) ELSE t
        /\ pagina' =
             IF c.fim = "raise"
             THEN [base EXCEPT !.carga = "excecao", !.erros = c.msgs,
                               !.excecao = TRUE]
             ELSE IF ~carregou
             THEN [base EXCEPT !.carga = "falha", !.erros = c.msgs \o <<M_FALHA>>]
             ELSE [base EXCEPT !.carga = "tabelas", !.erros = c.msgs,
                               !.abas_criadas = TRUE, !.abas = abas,
                               !.excecao = abas < 4,
                               !.aviso = clicou /\ TemReticencias(sel),
                               !.estilo = IF ~chamou THEN ""
                                          ELSE IF TemCerquilhas(resposta')
                                          THEN "markdown" ELSE "success"]

\* Somebody replaces, removes or damages one of the files on disk.
ArquivoMuda(f, c) ==
    /\ mudancas < MaxMudancas
    /\ c # arquivos[f]
    /\ arquivos' = [arquivos EXCEPT ![f] = c]
    /\ mudancas' = mudancas + 1
    /\ UNCHANGED <<cache_json, cache_df, leituras, df, pagina, pergunta, resposta>>

Next ==
    \/ \E sel \in Opcoes, botao \in BOOLEAN : Executar(sel, botao)
    \/ \E f \in Fontes : \E c \in Conteudos(f) : ArquivoMuda(f, c)

Spec == Init /\ [][Next]_vars

-----------------------------------------------------------------------------
(* Properties of the session *)

\* The questions the if/elif chain of responder_pergunta has a branch for.
Catalogo ==
    {P_LISTAR_2024, P_LISTAR_2018, P_LISTAR_CREDORES, P_MAIOR_2018, P_MENOR_2018,
     P_MAIOR_2024, P_CREDOR, P_ANO_MAIOR, P_ANO_MENOR}

ColunasEsperadas(f) ==
    IF f = F_EVOLUCAO THEN {"ano", "valor_trilhoes"}
    ELSE IF f = F_DETENTORES THEN ColsDetentores
    ELSE ColsGastos

\* A source that was read and parsed but whose records lack a required field.
Malformada(f) ==
    /\ cache_json[f].hit
    /\ Verdadeiro(cache_json[f].valor)
    /\ cache_json[f].valor.colunas # ColunasEsperadas(f)

\* A source carregar_dados_json could not load.
NaoCarregada(f) == cache_json[f].hit /\ cache_json[f].valor.nulo

\* (C3) Pressing "Buscar Resposta" with the selector on an entry that is
\* not a question of the catalog (the placeholder, a separator line) ends
\* with the guidance to select a valid question on the page, not in the
\* style of a successful answer and with nothing drawn from the tables.
C3_PerguntaDesconhecida ==
    (/\ pagina.abas = 4
     /\ pagina.botao
     /\ pagina.selecionada \notin Catalogo)
        => /\ pagina.estilo \notin {"success", "markdown"}
           /\ pagina.aviso \/ Kind(resposta) = "UnknownQuestion"

\* (C4) carregar_dataframes is all-or-nothing: every call returns three
\* tables or (None, None, None), never an exception and never a mix; it
\* returns the failure triple whenever a source did not load; and the page
\* then shows the unified error and no tab.
C4_TudoOuNada ==
    pagina.rodou =>
        /\ pagina.carga \in {"tabelas", "falha"}
        /\ \/ df[1].nulo /\ df[2].nulo /\ df[3].nulo
           \/ ~df[1].nulo /\ ~df[2].nulo /\ ~df[3].nulo
        /\ (\E f \in Fontes : NaoCarregada(f)) => pagina.carga = "falha"
        /\ pagina.carga = "falha" =>
              /\ ~pagina.abas_criadas
              /\ \E i \in 1..Len(pagina.erros) : pagina.erros[i] = M_FALHA

\* (C5) When a source parses but its records lack a required field, the
\* load ends in the failure value: it does not raise, and no table without
\* its required columns reaches the charts and responder_pergunta.
C5_MalformadaFalha ==
    (pagina.rodou /\ \E f \in Fontes : Malformada(f))
        => /\ pagina.carga = "falha"
           /\ ~pagina.excecao
           /\ ~pagina.abas_criadas

\* The first successful load has happened.
Carregado == cache_df.hit /\ ~cache_df.valor[1].nulo

\* (C6) Once the three tables are loaded, no step changes them: every later
\* run of the script, whatever it asks (the list questions included), gets
\* the same three tables from the memo, reads no file again, and leaves the
\* frames as it got them, even after the files on disk have changed.
C6_TabelasImutaveis ==
    [][Carregado =>
          /\ df = cache_df.valor
          /\ cache_df' = cache_df
          /\ df' = df
          /\ leituras' = leituras]_vars

\* The spending file was removed after the load, and a later run listed the
\* 2018 spending from the memoized table, each file read once.
C6_Witness ==
    /\ Carregado
    /\ arquivos[F_GASTOS] = Ausente
    /\ pergunta = P_LISTAR_2018
    /\ pagina.estilo = "markdown"
    /\ Len(resposta.itens) = 2
    /\ df = cache_df.valor
    /\ \A f \in Fontes : leituras[f] = 1

====
